---- MODULE Spec2Model ----
(***************************************************************************)
(* Keeta CLI: the wallet keystore (lib/keeta.ts), the account resolver,    *)
(* wallet:new, wallet:import with its auto-detect search and               *)
(* wallet:scan-balances (commands/wallet.ts), and the commands that only   *)
(* read the keystore (commands/account.ts, commands/tokens.ts, cli.ts),    *)
(* as a state machine.                                                     *)
(*                                                                         *)
(* The network client library (@keetanetwork/keetanet-client) is outside   *)
(* the repository.  Its derivation functions are modelled as injective     *)
(* constructors of an abstract account identity, its balance query as an   *)
(* environment function `net` chosen in the initial state.                 *)
(***************************************************************************)
EXTENDS Integers, Sequences, FiniteSets, TLC

----------------------------------------------------------------------------
(* Bounds of the model *)

\* largest derivation index stored in a wallet record drawn as an input
MaxIndex == 1
\* largest balance of one token reported by the network
MaxBal == 1

----------------------------------------------------------------------------
(* Wallet records (lib/keeta.ts, type Wallet).  A record is a TLA+ record  *)
(* holding exactly the fields that are present; an absent optional field   *)
(* is not in its DOMAIN.                                                   *)

WalletKeys == <<"seed", "index", "algo", "privateKeySecp256k1", "address">>

Algorithms == <<"ed25519", "secp256k1", "secp256r1">>

AlgoNames == {Algorithms[i] : i \in 1..Len(Algorithms)}

Seeds == {"5eed01", "5eed02"}

PrivKeys == {"c0de01", "c0de02"}

\* JavaScript null / a missing value, as returned by loadWallet
Null == [null |-> TRUE]

\* a thrown exception, as a value
Thrown(what) == [error |-> what]

Has(w, k) == k \in DOMAIN w

\* the number NaN, what parseInt returns for a text that starts with no digit
NaN == -1000

\* the value null as a field of a record read back from JSON
JsNull == -1001

\* JavaScript truthiness of an optional string field
TruthyStr(w, k) == Has(w, k) /\ w[k] # ""

\* JavaScript truthiness of an optional number field
TruthyNum(w, k) == Has(w, k) /\ w[k] \notin {0, NaN, JsNull}

\* the record w restricted to the keys in ks
Restrict(w, ks) == [k \in (DOMAIN w) \cap ks |-> w[k]]

\* all records over the optional fields seed, index, algo, privateKeySecp256k1
\* with at least one secret present
ValidWallets ==
    LET full == [seed : Seeds, index : 0..MaxIndex, algo : AlgoNames,
                 privateKeySecp256k1 : PrivKeys]
        doms == {d \in SUBSET {"seed", "index", "algo", "privateKeySecp256k1"} :
                    "seed" \in d \/ "privateKeySecp256k1" \in d}
    IN  {Restrict(f, d) : f \in full, d \in doms}

\* the record w with the cached address field set
WithAddress(w) ==
    [k \in (DOMAIN w) \cup {"address"} |-> IF k = "address" THEN "keeta_aab1" ELSE w[k]]

\* the records handed to saveWallet: with and without the address field
StoredWallets == ValidWallets \cup {WithAddress(w) : w \in ValidWallets}

----------------------------------------------------------------------------
(* Account resolver (lib/keeta.ts) *)

\* AccountKeyAlgorithm constants
algoConst(name) ==
    IF name = "ed25519" THEN "ED25519"
    ELSE IF name = "secp256k1" THEN "ECDSA_SECP256K1"
    ELSE IF name = "secp256r1" THEN "ECDSA_SECP256R1"
    ELSE "THROW"

\* an account identity; unused components hold a fixed filler
Acct(kind, seed, index, algo, key) ==
    [kind |-> kind, seed |-> seed, index |-> index, algo |-> algo, key |-> key]

ErrAccount == Acct("error", "", 0, "", "")

NoAccount == Acct("none", "", 0, "", "")

\* Account.fromECDSASECP256K1PrivateKey of the client library
fromECDSASECP256K1PrivateKey(key) ==
    IF key = "" THEN ErrAccount ELSE Acct("priv", "", 0, "ECDSA_SECP256K1", key)

\* Account.fromSeed of the client library; "undefined" stands for a missing seed
fromSeed(seed, index, algo) ==
    IF seed \in {"undefined", ""} \/ index < 0 THEN ErrAccount
    ELSE Acct("seed", seed, index, algo, "")

\* faulty variant: the seed is preferred when both secrets are present
accountFromWallet_seedFirst(wallet) ==
    IF TruthyStr(wallet, "seed")
    THEN fromSeed(wallet.seed,
                  IF TruthyNum(wallet, "index") THEN wallet.index ELSE 0,
                  algoConst(IF TruthyStr(wallet, "algo") THEN wallet.algo ELSE "ed25519"))
    ELSE IF TruthyStr(wallet, "privateKeySecp256k1")
    THEN fromECDSASECP256K1PrivateKey(wallet.privateKeySecp256k1)
    ELSE ErrAccount

\* faulty variant: an absent algo defaults to secp256k1
accountFromWallet_otherDefault(wallet) ==
    IF TruthyStr(wallet, "privateKeySecp256k1")
    THEN fromECDSASECP256K1PrivateKey(wallet.privateKeySecp256k1)
    ELSE LET a == algoConst(IF TruthyStr(wallet, "algo") THEN wallet.algo ELSE "secp256k1")
         IN  IF a = "THROW" THEN ErrAccount
             ELSE fromSeed(IF Has(wallet, "seed") THEN wallet.seed ELSE "undefined",
                           IF TruthyNum(wallet, "index") THEN wallet.index ELSE 0, a)

\* faulty variant: a private key is used only when the algorithm is secp256k1
accountFromWallet_checksAlgo(wallet) ==
    IF TruthyStr(wallet, "privateKeySecp256k1")
    THEN IF Has(wallet, "algo") /\ wallet.algo = "secp256k1"
         THEN fromECDSASECP256K1PrivateKey(wallet.privateKeySecp256k1)
         ELSE ErrAccount
    ELSE LET a == algoConst(IF TruthyStr(wallet, "algo") THEN wallet.algo ELSE "ed25519")
         IN  IF a = "THROW" THEN ErrAccount
             ELSE fromSeed(IF Has(wallet, "seed") THEN wallet.seed ELSE "undefined",
                           IF TruthyNum(wallet, "index") THEN wallet.index ELSE 0, a)

accountFromWallet(wallet) ==
    IF TruthyStr(wallet, "privateKeySecp256k1")
    THEN fromECDSASECP256K1PrivateKey(wallet.privateKeySecp256k1)
    ELSE LET a == algoConst(IF TruthyStr(wallet, "algo") THEN wallet.algo ELSE "ed25519")
         IN  IF a = "THROW" THEN ErrAccount
             ELSE fromSeed(IF Has(wallet, "seed") THEN wallet.seed ELSE "undefined",
                           IF TruthyNum(wallet, "index") THEN wallet.index ELSE 0, a)

----------------------------------------------------------------------------
(* Keystore file (lib/keeta.ts).  The text of the file is a sequence of    *)
(* JSON tokens: an opening brace, one member per field, a closing brace.   *)
(* A write that has not finished leaves a prefix of that sequence.         *)

JTok(t, k, s, n) == [t |-> t, k |-> k, s |-> s, n |-> n]

JOpen == JTok("{", "", "", 0)

JClose == JTok("}", "", "", 0)

\* one member "key": value; a string value in s, a number value in n; NaN is
\* written as null
JMember(w, k) ==
    IF k = "index"
    THEN IF w[k] \in {NaN, JsNull} THEN JTok("null", k, "", 0) ELSE JTok("num", k, "", w[k])
    ELSE JTok("str", k, w[k], 0)

RECURSIVE JMembers(_, _)
JMembers(w, i) ==
    IF i > Len(WalletKeys) THEN <<>>
    ELSE IF Has(w, WalletKeys[i])
         THEN <<JMember(w, WalletKeys[i])>> \o JMembers(w, i + 1)
         ELSE JMembers(w, i + 1)

\* faulty variant: a field that is absent is written as an empty string / zero
JSONstringify_fillAbsent(w) ==
    <<JOpen>>
    \o [i \in 1..Len(WalletKeys) |->
          IF Has(w, WalletKeys[i]) THEN JMember(w, WalletKeys[i])
          ELSE IF WalletKeys[i] = "index" THEN JTok("num", "index", "", 0)
          ELSE JTok("str", WalletKeys[i], "", 0)]
    \o <<JClose>>

\* JSON.stringify(w, null, 2): the fields that are present, nothing for the others
JSONstringify(w) == <<JOpen>> \o JMembers(w, 1) \o <<JClose>>

JWellFormed(text) ==
    /\ Len(text) >= 2
    /\ text[1] = JOpen
    /\ text[Len(text)] = JClose
    /\ \A i \in 2..(Len(text) - 1) : text[i].t \in {"str", "num", "null"}

\* the object holding the members among text[from..to]; a repeated key keeps
\* its last value
JObject(text, from, to) ==
    LET idx  == {i \in from..to : text[i].t \in {"str", "num", "null"}}
        keys == {text[i].k : i \in idx}
        last(k) == CHOOSE i \in idx : text[i].k = k /\ \A j \in idx : text[j].k = k => j <= i
    IN  [k \in keys |-> CASE text[last(k)].t = "num" -> text[last(k)].n
                          [] text[last(k)].t = "null" -> JsNull
                          [] OTHER -> text[last(k)].s]

ParseError == Thrown("SyntaxError")

\* faulty variant: a parser that returns the members read before the text ended
JSONparse_lenient(text) ==
    IF Len(text) >= 1 /\ text[1] = JOpen THEN JObject(text, 2, Len(text)) ELSE ParseError

\* JSON.parse
JSONparse(text) ==
    IF JWellFormed(text) THEN JObject(text, 2, Len(text) - 1) ELSE ParseError

TildePath == "~/.keeta/wallet.json"

HomePath == "/home/user/.keeta/wallet.json"

AltPath == "/tmp/alt-wallet.json"

Paths == {TildePath, HomePath, AltPath}

defaultKeyfile == HomePath

\* a file of the file system
File(exists, content) == [exists |-> exists, content |-> content]

NoFile == File(FALSE, <<>>)

\* saveWallet's target: file || defaultKeyfile()
saveTarget(file) == IF file # "" THEN file ELSE defaultKeyfile

\* the rest of loadWallet once existsSync answered true:
\* JSON.parse(readFileSync(f, 'utf-8'))
readWallet(text) == JSONparse(text)

----------------------------------------------------------------------------
(* Auto-detect search of wallet:import (commands/wallet.ts): pure parts *)

indices == <<0, 1, 2, 3, 4, 5>>

\* number of probes of one search: every algorithm with every index
NumPairs == Len(Algorithms) * Len(indices)

\* the i-th probe of the nested loops: algorithms outside, indices inside
PairAlgo(i) == Algorithms[((i - 1) \div Len(indices)) + 1]

PairIndex(i) == indices[((i - 1) % Len(indices)) + 1]

\* a 24-word phrase and a 12-word phrase as mnemonic.trim().split(/\s+/)
\* returns them: the sequence of their words
Mnemonic24 == [i \in 1..24 |-> "abandon"]

Mnemonic12 == [i \in 1..12 |-> "abandon"]

\* Account.seedFromPassphrase of the client library
seedFromPassphrase(words) == IF words = Mnemonic24 THEN "5eed24" ELSE "5eed12"

\* the candidate record of the i-th probe
testWallet(mnemonic, i) ==
    [seed |-> seedFromPassphrase(mnemonic), index |-> PairIndex(i), algo |-> PairAlgo(i)]

\* answers of the network to client.allBalances(): the balances of the tokens
\* the account holds, or a failure of the query, or a failure of the derivation
Answer(kind, balances) == [kind |-> kind, balances |-> balances]

\* an account holds no token, one token or two tokens
TokenCounts == {0, 1, 2}

BalanceLists == UNION {[1..n -> 0..MaxBal] : n \in TokenCounts}

Answers ==
    {Answer("ok", b) : b \in BalanceLists}
    \cup {Answer("query_error", <<>>), Answer("derive_error", <<>>)}

\* the probes answered differently from the others: none, or any one of them
HotSets == {{}} \cup {{i} : i \in 1..NumPairs}

\* every probe is answered `base`, except the probes in `hot`
Networks ==
    UNION {{[i \in 1..NumPairs |-> IF i \in hot THEN g[i] ELSE base] :
              g \in [hot -> Answers \ {base}]} :
           base \in Answers, hot \in HotSets}

RECURSIVE SumFrom(_, _)
SumFrom(balances, i) ==
    IF i > Len(balances) THEN 0 ELSE balances[i] + SumFrom(balances, i + 1)

\* totalBalance: the sum of BigInt(tokenInfo.balance || 0) over the entries
totalBalanceOf(balances) == SumFrom(balances, 1)

\* balanceCount
balanceCountOf(balances) == Len(balances)

\* faulty variant: an equal total replaces the current best
replacesBest_orEqual(totalBalance, max) == totalBalance >= max

\* faulty variant: any positive total replaces the current best
replacesBest_anyPositive(totalBalance, max) == totalBalance > 0

\* the test that makes a probed pair the new best
replacesBest(totalBalance, max) == totalBalance > max

\* what one probe logs
ProbeStatus(wallet, answer) ==
    IF answer.kind = "derive_error" \/ accountFromWallet(wallet).kind = "error"
    THEN "error"
    ELSE IF answer.kind = "query_error" THEN "network error"
    ELSE IF balanceCountOf(answer.balances) > 0 THEN "found" ELSE "no balance"

\* faulty variant: a failed probe ends the loops
nextProbe_abortOnError(p, status) ==
    IF status \in {"error", "network error"} THEN NumPairs ELSE p + 1

\* the loops go on to the next pair whatever the probe logged
\* faulty variant: a probe whose query failed is tried again
nextProbe_retryOnError(p, status) ==
    IF status = "network error" THEN p ELSE p + 1

nextProbe(p, status) == p + 1

----------------------------------------------------------------------------
(* Command line options of wallet:import; "" and <<>> stand for an option  *)
(* that was not given                                                      *)

Opts(seed, priv, mnemonic, algo, index, autoDetect, keyfile) ==
    [seed |-> seed, priv |-> priv, mnemonic |-> mnemonic, algo |-> algo,
     index |-> index, autoDetect |-> autoDetect, keyfile |-> keyfile]

NoOpts == Opts("", "", <<>>, "ed25519", "0", FALSE, TildePath)

\* --mnemonic with --auto-detect, with and without --keyfile
SearchOpts ==
    {Opts("", "", m, "ed25519", "0", TRUE, k) :
        m \in {Mnemonic24, Mnemonic12}, k \in {TildePath, AltPath}}

getKeyfile(o) == IF o.keyfile # "" THEN o.keyfile ELSE defaultKeyfile

\* the value of opts.keyfile after the command line was parsed: every
\* command declares --keyfile with the default text '~/.keeta/wallet.json',
\* which stands in when the flag is absent (given = "")
optionKeyfile(given) == IF given = "" THEN TildePath ELSE given

\* the value of opts.algo after the command line was parsed: wallet:new and
\* wallet:import declare --algo with the default 'ed25519'
optionAlgo(given) == IF given = "" THEN "ed25519" ELSE given

\* String.prototype.toLowerCase on the values of --algo
toLowerCase(s) ==
    CASE s = "ED25519" -> "ed25519"
      [] s = "SECP256K1" -> "secp256k1"
      [] s = "Secp256r1" -> "secp256r1"
      [] OTHER -> s

\* s.startsWith('0x') ? s.slice(2) : s on the values of --seed and --priv
strip0x(s) ==
    CASE s = "0x5eed01" -> "5eed01"
      [] s = "0x5eed02" -> "5eed02"
      [] s = "0xc0de01" -> "c0de01"
      [] s = "0xc0de02" -> "c0de02"
      [] s = "0x" -> ""
      [] OTHER -> s

\* parseInt on the values of --index, --start and --end: the leading integer
\* of the text, NaN when there is none
parseInt(s) ==
    CASE s = "0" -> 0
      [] s = "1" -> 1
      [] s = "2" -> 2
      [] s = "3" -> 3
      [] s = "-1" -> -1
      [] s = "1.5" -> 1
      [] s = "1x" -> 1
      [] OTHER -> NaN

\* isNaN
isNaN(n) == n = NaN

\* the record the keystore holds before the command runs
OldWallet == [seed |-> "5eed00", algo |-> "ed25519"]

----------------------------------------------------------------------------
(* State *)

VARIABLES
    recA, recB,     \* two wallet records handed to the resolver
    acctA, acctB,   \* what accountFromWallet returned for them
    fs,             \* the files: path -> [exists, content]
    dirs,           \* the paths whose parent directory exists
    fs0,            \* history: the files when the command started
    net,            \* the network: probe -> answer of allBalances
    pc,             \* where the running command is
    opts,           \* its options
    wallet,         \* its local `wallet`
    pos,            \* probes done by the auto-detect loops
    foundWallet, maxBalance, foundAddress,   \* locals of the auto-detect search
    probed,         \* what the search logged, one entry per probe
    written,        \* tokens of the keystore text writeFileSync has written
    acct,           \* the account the command printed
    exitCode,       \* the exit code of the command, -1 while it runs
    rd,             \* a second process running loadWallet
    cmd,            \* the name of the running command
    scan,           \* locals of wallet:scan-balances: seedHex, start, end, algos,
                    \* and the error it printed
    found,          \* its `found` array
    queries,        \* history: the network queries the command issued
    hist,           \* history: the calls of loadWallet and saveWallet the command
                    \* made, and whether its exchange with the network failed
    prev,           \* history: the command that ran before this one
    published       \* the transactions the command published, in order

resolveVars == <<recA, recB, acctA, acctB>>

searchVars == <<pos, foundWallet, maxBalance, foundAddress, probed>>

cmdVars == <<pc, opts, wallet, written, acct, exitCode>>

scanVars == <<scan, found, queries>>

histVars == <<hist, prev, published>>

vars == <<recA, recB, acctA, acctB, fs, dirs, fs0, net, pc, opts, wallet, pos,
          foundWallet, maxBalance, foundAddress, probed, written, acct, exitCode, rd,
          cmd, scan, found, queries, hist, prev, published>>

\* the second process before it starts
ReaderIdle ==
    [pc |-> "idle", file |-> TildePath, began |-> "", existed |-> FALSE,
     text |-> <<>>, result |-> Null]

\* the parts of the state a specification does not use
ResolveIdle ==
    /\ recA = OldWallet /\ recB = OldWallet
    /\ acctA = NoAccount /\ acctB = NoAccount

SearchIdle ==
    /\ pos = 0 /\ foundWallet = Null /\ maxBalance = 0
    /\ foundAddress = NoAccount /\ probed = <<>>

\* wallet:scan-balances before it runs
ScanError(kind, value) == [kind |-> kind, value |-> value]

NoError == ScanError("", "")

NoScan == [seedHex |-> "", start |-> 0, end |-> 0, algos |-> <<>>, error |-> NoError]

ScanIdle == scan = NoScan /\ found = <<>> /\ queries = <<>>

\* no call made yet
NoHist == [reads |-> 0, writes |-> 0, netFailed |-> FALSE]

\* no command ran before
NoPrev == [cmd |-> "none", opts |-> <<>>, acct |-> NoAccount, exitCode |-> 0]

HistIdle == hist = NoHist /\ prev = NoPrev /\ published = <<>>

QuietNet == net = [i \in 1..NumPairs |-> Answer("ok", <<>>)]

----------------------------------------------------------------------------
(* The resolver applied to two records *)

InitResolve ==
    /\ recA \in ValidWallets
    /\ recB \in ValidWallets
    /\ acctA = NoAccount
    /\ acctB = NoAccount
    /\ fs = [p \in Paths |-> NoFile] /\ dirs = {} /\ fs0 = fs
    /\ QuietNet /\ SearchIdle
    /\ pc = "done" /\ opts = NoOpts /\ wallet = Null /\ written = 0
    /\ acct = NoAccount /\ exitCode = 0
    /\ rd = ReaderIdle
    /\ HistIdle
    /\ cmd = "none" /\ ScanIdle

ResolveA ==
    /\ acctA = NoAccount
    /\ acctA' = accountFromWallet(recA)
    /\ UNCHANGED <<recA, recB, acctB, fs, dirs, fs0, net, cmdVars, searchVars, rd, cmd, scanVars,
                   histVars>>

ResolveB ==
    /\ acctB = NoAccount
    /\ acctB' = accountFromWallet(recB)
    /\ UNCHANGED <<recA, recB, acctA, fs, dirs, fs0, net, cmdVars, searchVars, rd, cmd, scanVars,
                   histVars>>

NextResolve == ResolveA \/ ResolveB

SpecResolve == InitResolve /\ [][NextResolve]_vars

----------------------------------------------------------------------------
(* wallet:import (commands/wallet.ts) *)

\* the action of the command up to its first await on the network or its
\* call of saveWallet
ImportStart(o) ==
    /\ pc = "idle"
    /\ cmd' = "wallet:import"
    /\ opts' = o
    /\ fs0' = fs
    /\ LET algo == toLowerCase(o.algo)
       IN  IF o.seed = "" /\ o.priv = "" /\ o.mnemonic = <<>>
           THEN pc' = "done" /\ exitCode' = 1 /\ wallet' = Null
           ELSE IF o.mnemonic # <<>>
           THEN IF Len(o.mnemonic) # 24
                THEN pc' = "done" /\ exitCode' = 1 /\ wallet' = Null
                ELSE IF o.autoDetect
                THEN pc' = "probing" /\ exitCode' = -1 /\ wallet' = Null
                ELSE /\ pc' = "save" /\ exitCode' = -1
                     /\ wallet' = [seed |-> seedFromPassphrase(o.mnemonic),
                                   index |-> parseInt(o.index), algo |-> algo]
           ELSE IF o.seed # ""
           THEN /\ pc' = "save" /\ exitCode' = -1
                /\ wallet' = [seed |-> strip0x(o.seed), algo |-> algo]
           ELSE IF algo # "secp256k1"
                THEN pc' = "done" /\ exitCode' = 1 /\ wallet' = Null
                ELSE /\ pc' = "save" /\ exitCode' = -1
                     /\ wallet' = [privateKeySecp256k1 |-> strip0x(o.priv),
                                   algo |-> algo]
    /\ pos' = 0 /\ foundWallet' = Null /\ maxBalance' = 0
    /\ foundAddress' = NoAccount /\ probed' = <<>>
    /\ UNCHANGED <<resolveVars, fs, dirs, net, written, acct, rd, scanVars,
                   histVars>>

\* one pass of the inner loop: derive, query, compare
ProbeStep ==
    /\ pc = "probing"
    /\ pos < NumPairs
    /\ LET i       == pos + 1
           w       == testWallet(opts.mnemonic, i)
           address == accountFromWallet(w)
           answer  == net[i]
           status  == ProbeStatus(w, answer)
           total   == totalBalanceOf(answer.balances)
           better  == status = "found" /\ replacesBest(total, maxBalance)
       IN  /\ probed' = Append(probed, [algo |-> w.algo, index |-> w.index,
                                        status |-> status])
           /\ maxBalance' = IF better THEN total ELSE maxBalance
           /\ foundWallet' = IF better THEN w ELSE foundWallet
           /\ foundAddress' = IF better THEN address ELSE foundAddress
           /\ pos' = nextProbe(pos, status)
           /\ queries' = IF status = "error" THEN queries
                         ELSE Append(queries, [algo |-> w.algo, index |-> w.index])
    /\ UNCHANGED <<resolveVars, fs, dirs, fs0, net, cmdVars, rd, cmd, scan, found,
                   histVars>>

\* faulty variant: without a match the command falls back to the first pair
AutoDetectDone_pickFirst ==
    /\ pc = "probing"
    /\ pos >= NumPairs
    /\ wallet' = IF foundWallet # Null THEN foundWallet ELSE testWallet(opts.mnemonic, 1)
    /\ pc' = "save" /\ exitCode' = exitCode
    /\ UNCHANGED <<resolveVars, fs, dirs, fs0, net, opts, written, acct,
                   searchVars, rd, cmd, scanVars,
                   histVars>>

\* after the loops: the match becomes the wallet, or the command fails
\* faulty variant: the search stops and saves at the first match
AutoDetectDone_firstMatch ==
    /\ pc = "probing"
    /\ pos >= NumPairs \/ foundWallet # Null
    /\ IF foundWallet # Null
       THEN wallet' = foundWallet /\ pc' = "save" /\ exitCode' = exitCode
       ELSE wallet' = wallet /\ pc' = "done" /\ exitCode' = 1
    /\ UNCHANGED <<resolveVars, fs, dirs, fs0, net, opts, written, acct,
                   searchVars, rd, cmd, scanVars,
                   histVars>>

AutoDetectDone ==
    /\ pc = "probing"
    /\ pos >= NumPairs
    /\ IF foundWallet # Null
       THEN wallet' = foundWallet /\ pc' = "save" /\ exitCode' = exitCode
       ELSE wallet' = wallet /\ pc' = "done" /\ exitCode' = 1
    /\ UNCHANGED <<resolveVars, fs, dirs, fs0, net, opts, written, acct,
                   searchVars, rd, cmd, scanVars,
                   histVars>>

\* saveWallet: ensureDir, then writeFileSync opens the file, which empties it
SaveOpen ==
    /\ pc = "save"
    /\ LET f == saveTarget(getKeyfile(opts))
       IN  /\ dirs' = dirs \cup {f}
           /\ fs' = [fs EXCEPT ![f] = File(TRUE, <<>>)]
    /\ written' = 0
    /\ hist' = [hist EXCEPT !.writes = @ + 1]
    /\ pc' = "write"
    /\ UNCHANGED <<resolveVars, fs0, net, opts, wallet, acct, exitCode,
                   searchVars, rd, cmd, scanVars,
                   prev, published>>

\* writeFileSync writes the text, in one write or in several
SaveWrite ==
    /\ pc = "write"
    /\ LET f    == saveTarget(getKeyfile(opts))
           text == JSONstringify(wallet)
       IN  \E n \in 1..(Len(text) - written) :
              /\ fs' = [fs EXCEPT ![f] =
                          File(TRUE, @.content \o SubSeq(text, written + 1, written + n))]
              /\ written' = written + n
              /\ pc' = IF written + n = Len(text) THEN "saved" ELSE "write"
    /\ UNCHANGED <<resolveVars, dirs, fs0, net, opts, wallet, acct, exitCode,
                   searchVars, rd, cmd, scanVars,
                   histVars>>

\* after saveWallet: resolve the account and print it; an exception of the
\* resolver is not caught and ends the process with code 1
ImportFinish ==
    /\ pc = "saved"
    /\ cmd \in {"wallet:new", "wallet:import"}
    /\ acct' = accountFromWallet(wallet)
    /\ exitCode' = IF accountFromWallet(wallet).kind = "error" THEN 1 ELSE 0
    /\ pc' = "done"
    /\ UNCHANGED <<resolveVars, fs, dirs, fs0, net, opts, wallet, written,
                   searchVars, rd, cmd, scanVars,
                   histVars>>

----------------------------------------------------------------------------
(* The auto-detect search on every network of the bounds *)

InitSearch ==
    /\ ResolveIdle
    /\ fs = [p \in Paths |-> IF p = TildePath
                             THEN File(TRUE, JSONstringify(OldWallet)) ELSE NoFile]
    /\ dirs = {TildePath}
    /\ fs0 = fs
    /\ net \in Networks
    /\ SearchIdle
    /\ pc = "idle" /\ opts = NoOpts /\ wallet = Null /\ written = 0
    /\ acct = NoAccount /\ exitCode = -1
    /\ rd = ReaderIdle
    /\ HistIdle
    /\ cmd = "none" /\ ScanIdle

NextSearch ==
    \/ \E o \in SearchOpts : ImportStart(o)
    \/ ProbeStep
    \/ AutoDetectDone
    \/ SaveOpen
    \/ SaveWrite
    \/ ImportFinish

SpecSearch == InitSearch /\ [][NextSearch]_vars

----------------------------------------------------------------------------
(* saveWallet of one process, loadWallet of another (lib/keeta.ts) *)

\* what the keystore path may hold before the command: nothing, a record,
\* the beginning of a record, an empty file
InitialFiles ==
    {NoFile,
     File(TRUE, JSONstringify(OldWallet)),
     File(TRUE, SubSeq(JSONstringify(OldWallet), 1, 2)),
     File(TRUE, <<>>)}

\* existsSync of loadWallet(file)
LoadExists(file) ==
    /\ rd.pc = "idle"
    /\ LET f == saveTarget(file)
       IN  rd' = IF fs[f].exists
                 THEN [rd EXCEPT !.pc = "read", !.file = file, !.began = pc,
                                 !.existed = TRUE]
                 ELSE [rd EXCEPT !.pc = "done", !.file = file, !.began = pc,
                                 !.existed = FALSE, !.result = Null]
    /\ UNCHANGED <<resolveVars, fs, dirs, fs0, net, cmdVars, searchVars, cmd, scanVars,
                   histVars>>

\* readFileSync and JSON.parse of loadWallet
LoadRead ==
    /\ rd.pc = "read"
    /\ LET text == fs[saveTarget(rd.file)].content
       IN  rd' = [rd EXCEPT !.pc = "done", !.text = text, !.result = readWallet(text)]
    /\ UNCHANGED <<resolveVars, fs, dirs, fs0, net, cmdVars, searchVars, cmd, scanVars,
                   histVars>>

InitStore ==
    /\ ResolveIdle /\ QuietNet /\ SearchIdle
    /\ wallet \in StoredWallets
    /\ \E k \in {TildePath, ""} : opts = [NoOpts EXCEPT !.keyfile = k]
    /\ \E f \in InitialFiles :
          fs = [p \in Paths |-> IF p = saveTarget(getKeyfile(opts)) THEN f ELSE NoFile]
    /\ dirs = {p \in Paths : fs[p].exists}
    /\ fs0 = fs
    /\ pc = "save" /\ written = 0 /\ acct = NoAccount /\ exitCode = -1
    /\ rd = ReaderIdle
    /\ HistIdle
    /\ cmd = "wallet:import" /\ ScanIdle

NextStore ==
    \/ SaveOpen
    \/ SaveWrite
    \/ ImportFinish
    \/ \E file \in {TildePath, ""} : LoadExists(file)
    \/ LoadRead

SpecStore == InitStore /\ [][NextStore]_vars

----------------------------------------------------------------------------
(* wallet:new and wallet:import without search (commands/wallet.ts), and    *)
(* wallet:import of the older command line (cli-old.ts), on every value of *)
(* their options                                                           *)

\* options of wallet:new
NewOpts(algo, keyfile) == [algo |-> algo, keyfile |-> keyfile]

\* values of --algo, --index, --seed and --priv; "" is an option not given
AlgoTexts == {"ed25519", "SECP256K1", "secp256r1", "bogus"}

IndexTexts == {"0", "2", "-1", "abc"}

SeedTexts == {"", "5eed01", "0x5eed02", "0x"}

PrivTexts == {"", "c0de01", "0xc0de02", "0x"}

ImportOpts ==
    {Opts(s, p, m, a, i, FALSE, k) :
        s \in SeedTexts, p \in PrivTexts, m \in {<<>>, Mnemonic24, Mnemonic12},
        a \in AlgoTexts, i \in IndexTexts, k \in {TildePath, AltPath}}

\* the older command line has no --keyfile and no --auto-detect
OldImportOpts == {o \in ImportOpts : o.keyfile = TildePath}

\* wallet:new up to its call of saveWallet; seed is what generateRandomSeed
\* returned
WalletNew(o, seed) ==
    /\ pc = "idle"
    /\ cmd' = "wallet:new"
    /\ opts' = o
    /\ fs0' = fs
    /\ LET algo == toLowerCase(o.algo)
       IN  IF algo \notin AlgoNames
           THEN pc' = "done" /\ exitCode' = 1 /\ wallet' = Null
           ELSE /\ pc' = "save" /\ exitCode' = -1
                /\ wallet' = [seed |-> seed, algo |-> algo]
    /\ UNCHANGED <<resolveVars, fs, dirs, net, written, acct, rd, searchVars,
                   scanVars,
                   histVars>>

\* faulty variant: the branches are not exclusive, --seed is kept next to --priv
oldImportWallet_noElse(o) ==
    LET fromPriv == IF o.priv # "" THEN [privateKeySecp256k1 |-> o.priv] ELSE <<>>
        seed     == IF o.mnemonic # <<>> THEN seedFromPassphrase(o.mnemonic) ELSE o.seed
    IN  IF o.priv # "" /\ o.seed = "" /\ o.mnemonic = <<>>
        THEN fromPriv
        ELSE [k \in (DOMAIN fromPriv) \cup {"seed", "algo", "index"} |->
                CASE k = "seed" -> seed
                  [] k = "algo" -> o.algo
                  [] k = "index" -> parseInt(o.index)
                  [] OTHER -> fromPriv[k]]

\* the record wallet:import of the older command line builds
oldImportWallet(o) ==
    IF o.priv # ""
    THEN [privateKeySecp256k1 |-> o.priv]
    ELSE IF o.mnemonic # <<>>
    THEN [seed |-> seedFromPassphrase(o.mnemonic), algo |-> o.algo,
          index |-> parseInt(o.index)]
    ELSE [seed |-> o.seed, algo |-> o.algo, index |-> parseInt(o.index)]

\* the account it derives from the options, before it saves
oldImportAccount(o) ==
    IF o.priv # ""
    THEN fromECDSASECP256K1PrivateKey(o.priv)
    ELSE IF algoConst(o.algo) = "THROW" THEN ErrAccount
    ELSE fromSeed(IF o.mnemonic # <<>> THEN seedFromPassphrase(o.mnemonic) ELSE o.seed,
                  parseInt(o.index), algoConst(o.algo))

\* wallet:import of the older command line up to its call of saveWallet; an
\* exception of the derivation ends the process before the save
OldImportStart(o) ==
    /\ pc = "idle"
    /\ cmd' = "old wallet:import"
    /\ opts' = [o EXCEPT !.keyfile = ""]
    /\ fs0' = fs
    /\ IF o.seed = "" /\ o.priv = "" /\ o.mnemonic = <<>>
       THEN pc' = "done" /\ exitCode' = 1 /\ wallet' = Null /\ acct' = acct
       ELSE /\ wallet' = oldImportWallet(o)
            /\ acct' = oldImportAccount(o)
            /\ IF oldImportAccount(o).kind = "error"
               THEN pc' = "done" /\ exitCode' = 1
               ELSE pc' = "save" /\ exitCode' = -1
    /\ UNCHANGED <<resolveVars, fs, dirs, net, written, rd, searchVars, scanVars,
                   histVars>>

\* after its saveWallet it prints the account derived before
OldImportFinish ==
    /\ pc = "saved"
    /\ cmd = "old wallet:import"
    /\ pc' = "done"
    /\ exitCode' = 0
    /\ UNCHANGED <<resolveVars, fs, dirs, fs0, net, opts, wallet, written, acct,
                   searchVars, rd, cmd, scanVars,
                   histVars>>

InitImport ==
    /\ ResolveIdle /\ QuietNet /\ SearchIdle /\ ScanIdle
    /\ fs = [p \in Paths |-> File(TRUE, JSONstringify(OldWallet))]
    /\ dirs = Paths
    /\ fs0 = fs
    /\ pc = "idle" /\ cmd = "none" /\ opts = NoOpts /\ wallet = Null /\ written = 0
    /\ acct = NoAccount /\ exitCode = -1
    /\ rd = ReaderIdle
    /\ HistIdle

NextImport ==
    \/ \E o \in ImportOpts : ImportStart(o)
    \/ \E a \in AlgoTexts, k \in {TildePath, AltPath}, seed \in Seeds :
          WalletNew(NewOpts(a, k), seed)
    \/ \E o \in OldImportOpts : OldImportStart(o)
    \/ SaveOpen
    \/ SaveWrite
    \/ ImportFinish
    \/ OldImportFinish

SpecImport == InitImport /\ [][NextImport]_vars

----------------------------------------------------------------------------
(* wallet:scan-balances (commands/wallet.ts) *)

\* its options; algos holds the pieces of --algos between its commas, <<>>
\* for the default ''
ScanOpts(mnemonic, algos, start, end, verbose, keyfile) ==
    [mnemonic |-> mnemonic, algos |-> algos, start |-> start, end |-> end,
     verbose |-> verbose, keyfile |-> keyfile]

\* s.trim().toLowerCase() on the pieces of --algos
trimLower(s) ==
    CASE s = " SECP256R1" -> "secp256r1"
      [] s = " " -> ""
      [] OTHER -> toLowerCase(s)

\* .filter(Boolean): the empty strings are dropped
RECURSIVE filterBoolean(_)
filterBoolean(seq) ==
    IF seq = <<>> THEN <<>>
    ELSE (IF Head(seq) = "" THEN <<>> ELSE <<Head(seq)>>) \o filterBoolean(Tail(seq))

\* the list `algos`
requestedAlgos(o, defaultAlgo) ==
    IF o.algos # <<>>
    THEN filterBoolean([i \in 1..Len(o.algos) |-> trimLower(o.algos[i])])
    ELSE <<defaultAlgo>>

\* faulty variant: only the first algorithm of the list is validated
firstInvalid_headOnly(algos) ==
    IF algos # <<>> /\ algos[1] \notin AlgoNames THEN algos[1] ELSE ""

\* the algorithm the validation loop stops at, "" when it passes
firstInvalid(algos) ==
    LET bad == {i \in 1..Len(algos) : algos[i] \notin AlgoNames}
    IN  IF bad = {} THEN "" ELSE algos[CHOOSE i \in bad : \A j \in bad : i <= j]

\* the range test, negated
validRange(start, end) == ~(isNaN(start) \/ isNaN(end) \/ start < 0 \/ end < start)

\* loadWallet(file) where no other process writes
\* faulty variant: the file argument is ignored
loadWallet_ignoresFile(files, file) ==
    IF ~files[defaultKeyfile].exists THEN Null
    ELSE readWallet(files[defaultKeyfile].content)

loadWallet(files, file) ==
    IF ~files[saveTarget(file)].exists THEN Null
    ELSE readWallet(files[saveTarget(file)].content)

\* the seed and the default algorithm, from --mnemonic or from the keystore
\* at the default path, or the error that ends the command
scanSeed(o, files) ==
    LET fail(e) == [error |-> e, seedHex |-> "", defaultAlgo |-> ""]
        w       == loadWallet(files, defaultKeyfile)
    IN  IF o.mnemonic # <<>>
        THEN IF Len(o.mnemonic) # 24 THEN fail("mnemonic")
             ELSE [error |-> "", seedHex |-> seedFromPassphrase(o.mnemonic),
                   defaultAlgo |-> "ed25519"]
        ELSE IF w = ParseError THEN fail("parse")
        ELSE IF w = Null
                \/ (~TruthyStr(w, "seed") /\ ~TruthyStr(w, "privateKeySecp256k1"))
        THEN fail("no seed")
        ELSE IF TruthyStr(w, "privateKeySecp256k1") THEN fail("private key")
        ELSE [error |-> "", seedHex |-> w.seed,
              defaultAlgo |-> IF TruthyStr(w, "algo") THEN w.algo ELSE "ed25519"]

\* the number of (algo, index) pairs of the loops, and the k-th of them
scanPairs(s) == Len(s.algos) * (s.end - s.start + 1)

scanAlgo(s, k) == s.algos[((k - 1) \div (s.end - s.start + 1)) + 1]

scanIndex(s, k) == s.start + ((k - 1) % (s.end - s.start + 1))

\* where the network holds the answer for a pair
PairOf(algo, index) ==
    ((CHOOSE i \in 1..Len(Algorithms) : Algorithms[i] = algo) - 1) * Len(indices)
    + index + 1

\* faulty variant: every pair that was queried is emitted
scanEmits_always(count, verbose) == TRUE

\* count > 0 || opts.verbose
scanEmits(count, verbose) == count > 0 \/ verbose

\* faulty variant: a failed query is taken for an account without balances
scanOutcome_errorIsZero(w, answer, verbose) ==
    IF accountFromWallet(w).kind = "error" \/ answer.kind # "ok"
    THEN IF verbose THEN "no balance" ELSE "silent"
    ELSE IF ~scanEmits(balanceCountOf(answer.balances), verbose) THEN "silent"
    ELSE IF balanceCountOf(answer.balances) = 0 THEN "no balance"
    ELSE "found"

\* what one pass of the inner loop prints: the catch block, nothing, or the
\* account with its balances
scanOutcome(w, answer, verbose) ==
    IF accountFromWallet(w).kind = "error" \/ answer.kind # "ok"
    THEN "network error"
    ELSE IF ~scanEmits(balanceCountOf(answer.balances), verbose) THEN "silent"
    ELSE IF balanceCountOf(answer.balances) = 0 THEN "no balance"
    ELSE "found"

\* the command up to the creation of its client
ScanStart(o) ==
    /\ pc = "idle"
    /\ cmd' = "wallet:scan-balances"
    /\ opts' = o
    /\ fs0' = fs
    /\ hist' = IF o.mnemonic = <<>> THEN [hist EXCEPT !.reads = @ + 1] ELSE hist
    /\ LET s     == scanSeed(o, fs)
           start == parseInt(o.start)
           end   == parseInt(o.end)
           algos == requestedAlgos(o, s.defaultAlgo)
           err   == IF s.error # "" THEN ScanError(s.error, "")
                    ELSE IF ~validRange(start, end) THEN ScanError("range", "")
                    ELSE IF firstInvalid(algos) # ""
                    THEN ScanError("algo", firstInvalid(algos))
                    ELSE NoError
       IN  IF err = NoError
           THEN /\ scan' = [seedHex |-> s.seedHex, start |-> start, end |-> end,
                            algos |-> algos, error |-> NoError]
                /\ pc' = "scanning" /\ exitCode' = -1
           ELSE /\ scan' = [NoScan EXCEPT !.error = err]
                /\ pc' = "done" /\ exitCode' = 1
    /\ pos' = 0 /\ probed' = <<>> /\ found' = <<>> /\ queries' = <<>>
    /\ UNCHANGED <<resolveVars, fs, dirs, net, wallet, written, acct, rd,
                   foundWallet, maxBalance, foundAddress,
                   prev, published>>

\* one pass of the inner loop: derive, query, print and push
ScanStep ==
    /\ pc = "scanning"
    /\ pos < scanPairs(scan)
    /\ LET w       == [seed |-> scan.seedHex, index |-> scanIndex(scan, pos + 1),
                       algo |-> scanAlgo(scan, pos + 1)]
           answer  == net[PairOf(w.algo, w.index)]
           derived == accountFromWallet(w).kind # "error"
                      /\ answer.kind # "derive_error"
           status  == scanOutcome(w, answer, opts.verbose)
       IN  /\ queries' = IF derived
                         THEN Append(queries, [algo |-> w.algo, index |-> w.index])
                         ELSE queries
           /\ probed' = Append(probed, [algo |-> w.algo, index |-> w.index,
                                        status |-> status])
           /\ found' = IF status \in {"found", "no balance"}
                       THEN Append(found, [algo |-> w.algo, index |-> w.index,
                                           address |-> accountFromWallet(w),
                                           balances |-> answer.balances])
                       ELSE found
           /\ pos' = pos + 1
    /\ UNCHANGED <<resolveVars, fs, dirs, fs0, net, cmdVars, rd, cmd, scan,
                   foundWallet, maxBalance, foundAddress,
                   histVars>>

\* after the loops: the summary
ScanDone ==
    /\ pc = "scanning"
    /\ pos >= scanPairs(scan)
    /\ pc' = "done"
    /\ exitCode' = 0
    /\ UNCHANGED <<resolveVars, fs, dirs, fs0, net, opts, wallet, written, acct,
                   searchVars, rd, cmd, scanVars,
                   histVars>>

\* values of --algos, --start and --end
AlgoLists ==
    {<<>>, <<"ed25519">>, <<"secp256k1", "ed25519">>, <<"ed25519", "bogus">>,
     <<"", "">>, <<" SECP256R1", " ">>, <<" ">>}

StartTexts == {"0", "1", "-1", "abc"}

EndTexts == {"0", "1", "1x", "abc"}

ScanOptions ==
    {ScanOpts(m, a, s, e, v, TildePath) :
        m \in {<<>>, Mnemonic24, Mnemonic12}, a \in AlgoLists,
        s \in StartTexts, e \in EndTexts, v \in BOOLEAN}

\* what the keystore at the default path may hold: nothing, a seed record, a
\* private key record
ScanKeystores ==
    {NoFile,
     File(TRUE, JSONstringify([seed |-> "5eed01", index |-> 1, algo |-> "secp256k1"])),
     File(TRUE, JSONstringify([privateKeySecp256k1 |-> "c0de01", algo |-> "secp256k1"]))}

\* the answers of getAccountInfo: no balances, one balance, a failed query,
\* a failed derivation
ScanAnswers ==
    {Answer("ok", <<>>), Answer("ok", <<1>>), Answer("query_error", <<>>),
     Answer("derive_error", <<>>)}

\* the networks: one answer everywhere but for one pair among the first two
\* indices
ScanNetworks ==
    {[i \in 1..NumPairs |-> IF i = PairOf(a, h) THEN x ELSE base] :
        base \in ScanAnswers, x \in ScanAnswers, a \in AlgoNames, h \in 0..1}

InitScan ==
    /\ ResolveIdle /\ SearchIdle /\ ScanIdle
    /\ \E k \in ScanKeystores :
          fs = [p \in Paths |-> IF p = defaultKeyfile THEN k
                                ELSE IF p = TildePath
                                THEN File(TRUE, JSONstringify(OldWallet))
                                ELSE NoFile]
    /\ dirs = {p \in Paths : fs[p].exists}
    /\ fs0 = fs
    /\ net \in ScanNetworks
    /\ pc = "idle" /\ cmd = "none" /\ opts = NoOpts /\ wallet = Null /\ written = 0
    /\ acct = NoAccount /\ exitCode = -1
    /\ rd = ReaderIdle
    /\ HistIdle

\* both searches: the scan, and wallet:import with --auto-detect
NextScan ==
    \/ \E o \in ScanOptions : ScanStart(o)
    \/ ScanStep
    \/ ScanDone
    \/ \E o \in SearchOpts : ImportStart(o)
    \/ ProbeStep
    \/ AutoDetectDone
    \/ SaveOpen
    \/ SaveWrite
    \/ ImportFinish

SpecScan == InitScan /\ [][NextScan]_vars

----------------------------------------------------------------------------
(* The commands that read the keystore (commands/account.ts,               *)
(* commands/tokens.ts, commands/wallet.ts, cli.ts)                         *)

\* the commands that begin with loadWallet(getKeyfile(opts))
KeystoreReaders ==
    {"balance", "info", "history", "chain", "recover",
     "send", "token:supply", "token:mint", "token:burn", "token:create",
     "token:metadata", "tokens:list", "token:permissions", "token:distribute",
     "wallet:address", "wallet:export", "wallet:debug"}

\* those that go on to the network with the resolved account
NetworkCommands ==
    KeystoreReaders \ {"wallet:address", "wallet:export", "wallet:debug",
                       "token:permissions"}

\* those whose catch block prints a failure of the network and returns
swallowsFailure == {"token:mint", "token:metadata"}

\* their --keyfile option
ReaderOpts(keyfile) == [keyfile |-> keyfile]

\* token:supply: argsOk says that --add or --sub was given and is not zero
SupplyOpts(keyfile, argsOk) == [keyfile |-> keyfile, argsOk |-> argsOk]

\* token:create: argsOk says that --symbol and --mode pass their tests
CreateOpts(keyfile, supply, argsOk) ==
    [keyfile |-> keyfile, supply |-> supply, argsOk |-> argsOk]

\* asAccount(opts.address) of balance --address
asAccount(address) == Acct("address", "", 0, "", address)

\* loadWallet and the test of its result; token:metadata loads inside a try
\* block and returns, the others exit with code 1
CommandLoad(name, o) ==
    /\ pc = "idle"
    /\ cmd' = name
    /\ opts' = o
    /\ fs0' = fs
    /\ hist' = [hist EXCEPT !.reads = @ + 1]
    /\ wallet' = loadWallet(fs, getKeyfile(o))
    /\ IF loadWallet(fs, getKeyfile(o)) \in {Null, ParseError}
       THEN pc' = "done" /\ exitCode' = IF name = "token:metadata" THEN 0 ELSE 1
       ELSE pc' = "loaded" /\ exitCode' = -1
    /\ UNCHANGED <<resolveVars, fs, dirs, net, written, acct, rd, searchVars,
                   scanVars,
                   prev, published>>

\* faulty variant: the resolved address is cached in the keystore
CommandResolve_cachesAddress ==
    /\ pc = "loaded"
    /\ acct' = accountFromWallet(wallet)
    /\ fs' = [fs EXCEPT ![saveTarget(getKeyfile(opts))] =
                File(TRUE, JSONstringify(WithAddress(wallet)))]
    /\ IF cmd \in NetworkCommands /\ accountFromWallet(wallet).kind # "error"
       THEN pc' = "network" /\ exitCode' = -1
       ELSE pc' = "done" /\ exitCode' = 0
    /\ UNCHANGED <<resolveVars, dirs, fs0, net, opts, wallet, written,
                   searchVars, rd, cmd, scanVars,
                   histVars>>

\* accountFromWallet(wallet); wallet:export prints the record without
\* resolving it, wallet:debug and token:metadata catch the exception
CommandResolve ==
    /\ pc = "loaded"
    /\ acct' = IF cmd = "wallet:export" \/ (cmd = "token:supply" /\ ~opts.argsOk)
               THEN acct ELSE accountFromWallet(wallet)
    /\ IF cmd \in {"wallet:export", "wallet:debug"}
       THEN pc' = "done" /\ exitCode' = 0
       ELSE IF cmd = "token:supply" /\ ~opts.argsOk
       THEN pc' = "done" /\ exitCode' = 1
       ELSE IF accountFromWallet(wallet).kind = "error"
       THEN pc' = "done" /\ exitCode' = IF cmd = "token:metadata" THEN 0 ELSE 1
       ELSE IF cmd = "token:create" /\ ~opts.argsOk
       THEN pc' = "done" /\ exitCode' = 1
       ELSE IF cmd \in {"wallet:address", "token:permissions"}
       THEN pc' = "done" /\ exitCode' = 0
       ELSE pc' = "network" /\ exitCode' = -1
    /\ UNCHANGED <<resolveVars, fs, dirs, fs0, net, opts, wallet, written,
                   searchVars, rd, cmd, scanVars,
                   histVars>>

\* balance --address: no keystore, a read-only client
BalanceOfAddress(o, address) ==
    /\ pc = "idle"
    /\ cmd' = "balance"
    /\ opts' = o
    /\ fs0' = fs
    /\ acct' = asAccount(address)
    /\ pc' = "network" /\ exitCode' = -1
    /\ UNCHANGED <<resolveVars, fs, dirs, net, wallet, written, rd, searchVars,
                   scanVars,
                   histVars>>

\* the exchange with the network, which succeeds or fails; a failure ends
\* the process with code 1, by process.exit in a catch block or as an
\* exception nobody catches, but for the commands that print it and return
CommandNetwork(ok) ==
    /\ pc = "network"
    /\ cmd # "token:distribute"
    /\ queries' = Append(queries, [algo |-> acct.algo, index |-> acct.index])
    /\ hist' = [hist EXCEPT !.netFailed = ~ok]
    /\ IF ok /\ cmd = "token:create" /\ parseInt(opts.supply) > 0
       THEN pc' = "supply" /\ exitCode' = -1
       ELSE /\ pc' = "done"
            /\ exitCode' = IF ok \/ cmd \in swallowsFailure THEN 0 ELSE 1
    /\ UNCHANGED <<resolveVars, fs, dirs, fs0, net, opts, wallet, written, acct,
                   searchVars, rd, cmd, scan, found, prev, published>>

\* token:create with a supply: a second loadWallet inside a try block, then
\* the supply transaction; the handler returns or catches, and goes on to
\* its summary
CreateSupply(ok) ==
    /\ pc = "supply"
    /\ hist' = [hist EXCEPT !.reads = @ + 1,
                            !.netFailed = ~ok]
    /\ wallet' = loadWallet(fs, getKeyfile(opts))
    /\ published' = IF loadWallet(fs, getKeyfile(opts)) \notin {Null, ParseError}
                       /\ accountFromWallet(loadWallet(fs, getKeyfile(opts))).kind # "error"
                       /\ ok
                    THEN Append(published, "modifyTokenSupply")
                    ELSE published
    /\ pc' = "done"
    /\ exitCode' = 0
    /\ UNCHANGED <<resolveVars, fs, dirs, fs0, net, opts, written, acct,
                   searchVars, rd, cmd, scanVars, prev>>

\* faulty variant: the transfer is published whether or not the supply
\* increase succeeded
DistributeSupply_goesOn(ok) ==
    /\ pc = "network"
    /\ cmd = "token:distribute"
    /\ published' = IF ok THEN Append(published, "modifyTokenSupply") ELSE published
    /\ hist' = [hist EXCEPT !.netFailed = ~ok]
    /\ pc' = "transfer" /\ exitCode' = -1
    /\ UNCHANGED <<resolveVars, fs, dirs, fs0, net, opts, wallet, written, acct,
                   searchVars, rd, cmd, scanVars, prev>>

\* token:distribute, step 1: the supply increase is published and awaited; an
\* exception is caught and ends the command with code 1
DistributeSupply(ok) ==
    /\ pc = "network"
    /\ cmd = "token:distribute"
    /\ published' = IF ok THEN Append(published, "modifyTokenSupply") ELSE published
    /\ hist' = [hist EXCEPT !.netFailed = ~ok]
    /\ IF ok THEN pc' = "transfer" /\ exitCode' = -1
       ELSE pc' = "done" /\ exitCode' = 1
    /\ UNCHANGED <<resolveVars, fs, dirs, fs0, net, opts, wallet, written, acct,
                   searchVars, rd, cmd, scanVars, prev>>

\* step 2: the transfer to the recipient is published and awaited
DistributeTransfer(ok) ==
    /\ pc = "transfer"
    /\ published' = IF ok THEN Append(published, "send") ELSE published
    /\ hist' = [hist EXCEPT !.netFailed = @ \/ ~ok]
    /\ pc' = "done"
    /\ exitCode' = IF ok THEN 0 ELSE 1
    /\ UNCHANGED <<resolveVars, fs, dirs, fs0, net, opts, wallet, written, acct,
                   searchVars, rd, cmd, scanVars, prev>>

\* wallet:test-derivations: derivations of a mnemonic, no keystore, no network
TestDerivations(mnemonic) ==
    /\ pc = "idle"
    /\ cmd' = "wallet:test-derivations"
    /\ opts' = [mnemonic |-> mnemonic]
    /\ fs0' = fs
    /\ pc' = "done"
    /\ exitCode' = IF Len(mnemonic) # 24 THEN 1 ELSE 0
    /\ UNCHANGED <<resolveVars, fs, dirs, net, wallet, written, acct, rd,
                   searchVars, scanVars,
                   histVars>>

\* what a keystore path may hold when a command starts: nothing, a seed
\* record, a private key record, a record that does not resolve, a text that
\* was cut short
CommandKeystores ==
    {NoFile,
     File(TRUE, JSONstringify(OldWallet)),
     File(TRUE, JSONstringify([privateKeySecp256k1 |-> "c0de01", algo |-> "secp256k1"])),
     File(TRUE, JSONstringify([seed |-> "5eed01", algo |-> "bogus"])),
     File(TRUE, SubSeq(JSONstringify(OldWallet), 1, 2))}

InitCommands ==
    /\ ResolveIdle /\ SearchIdle /\ ScanIdle /\ QuietNet
    /\ \E k \in CommandKeystores :
          fs = [p \in Paths |-> IF p = AltPath THEN NoFile ELSE k]
    /\ dirs = {p \in Paths : fs[p].exists}
    /\ fs0 = fs
    /\ pc = "idle" /\ cmd = "none" /\ opts = NoOpts /\ wallet = Null /\ written = 0
    /\ acct = NoAccount /\ exitCode = -1
    /\ rd = ReaderIdle
    /\ HistIdle

\* every command of the program, one run of one command
NextCommands ==
    \/ \E name \in KeystoreReaders \ {"token:supply", "token:create"},
          k \in {TildePath, AltPath} :
          CommandLoad(name, ReaderOpts(k))
    \/ \E k \in {TildePath, AltPath}, ok \in BOOLEAN :
          CommandLoad("token:supply", SupplyOpts(k, ok))
    \/ \E k \in {TildePath, AltPath}, sup \in {"0", "1"}, ok \in BOOLEAN :
          CommandLoad("token:create", CreateOpts(k, sup, ok))
    \/ CommandResolve
    \/ \E k \in {TildePath, AltPath} : BalanceOfAddress(ReaderOpts(k), "keeta_aab1")
    \/ \E ok \in BOOLEAN : CommandNetwork(ok)
    \/ \E ok \in BOOLEAN : CreateSupply(ok)
    \/ \E ok \in BOOLEAN : DistributeSupply(ok)
    \/ \E ok \in BOOLEAN : DistributeTransfer(ok)
    \/ \E m \in {Mnemonic24, Mnemonic12} : TestDerivations(m)
    \/ \E o \in ScanOptions : ScanStart(o)
    \/ ScanStep
    \/ ScanDone
    \/ \E a \in AlgoTexts, k \in {TildePath, AltPath}, seed \in Seeds :
          WalletNew(NewOpts(a, k), seed)
    \/ \E o \in ImportOpts \cup SearchOpts : ImportStart(o)
    \/ ProbeStep
    \/ AutoDetectDone
    \/ SaveOpen
    \/ SaveWrite
    \/ ImportFinish

SpecCommands == InitCommands /\ [][NextCommands]_vars

----------------------------------------------------------------------------
(* Two invocations in a row: wallet:new or wallet:import, then a command
   that reads what was saved. The file system and the network outlive the
   process; everything else starts afresh *)

\* the process is over and the next one starts; prev keeps what the first
\* one was asked and what it printed
NextInvocation ==
    /\ pc = "done"
    /\ prev = NoPrev
    /\ prev' = [cmd |-> cmd, opts |-> opts, acct |-> acct, exitCode |-> exitCode]
    /\ pc' = "idle" /\ cmd' = "none" /\ opts' = NoOpts
    /\ wallet' = Null /\ written' = 0 /\ acct' = NoAccount /\ exitCode' = -1
    /\ pos' = 0 /\ foundWallet' = Null /\ maxBalance' = 0
    /\ foundAddress' = NoAccount /\ probed' = <<>>
    /\ scan' = NoScan /\ found' = <<>> /\ queries' = <<>>
    /\ hist' = NoHist /\ published' = <<>>
    /\ fs0' = fs
    /\ UNCHANGED <<resolveVars, fs, dirs, net, rd>>

SessionImportOpts ==
    {Opts(s, p, m, a, i, FALSE, k) :
        s \in {"", "5eed01", "0x5eed02"}, p \in {"", "0xc0de02"},
        m \in {<<>>, Mnemonic24}, a \in {"ed25519", "SECP256K1"},
        i \in IndexTexts, k \in {TildePath, AltPath}}

SessionSearchOpts == {o \in SearchOpts : o.mnemonic = Mnemonic24}

SessionScanOptions ==
    {ScanOpts(<<>>, a, "0", e, v, k) :
        a \in {<<>>, <<"secp256k1", "ed25519">>}, e \in {"0", "1"},
        v \in BOOLEAN, k \in {TildePath, AltPath}}

SessionReaders == {"wallet:address", "wallet:export", "balance", "send"}

\* the keystores before the first command: none, or an older one at the
\* per-user default path
SessionFiles ==
    {[p \in Paths |-> NoFile],
     [p \in Paths |-> IF p = defaultKeyfile
                      THEN File(TRUE, JSONstringify(OldWallet)) ELSE NoFile]}

\* a network where no account holds anything, and one where the pair
\* (secp256k1, 1) holds a token
SessionNetworks ==
    {[i \in 1..NumPairs |-> Answer("ok", <<>>)],
     [i \in 1..NumPairs |-> IF i = PairOf("secp256k1", 1)
                            THEN Answer("ok", <<1>>) ELSE Answer("ok", <<>>)]}

InitSession ==
    /\ ResolveIdle /\ SearchIdle /\ ScanIdle
    /\ fs \in SessionFiles
    /\ dirs = {p \in Paths : fs[p].exists}
    /\ fs0 = fs
    /\ net \in SessionNetworks
    /\ pc = "idle" /\ cmd = "none" /\ opts = NoOpts /\ wallet = Null /\ written = 0
    /\ acct = NoAccount /\ exitCode = -1
    /\ rd = ReaderIdle
    /\ HistIdle

NextSession ==
    \/ /\ prev = NoPrev
       /\ \E a \in AlgoTexts, k \in {TildePath, AltPath}, seed \in Seeds :
             WalletNew(NewOpts(a, k), seed)
    \/ /\ prev = NoPrev
       /\ \E o \in SessionImportOpts \cup SessionSearchOpts : ImportStart(o)
    \/ ProbeStep
    \/ AutoDetectDone
    \/ SaveOpen
    \/ SaveWrite
    \/ ImportFinish
    \/ NextInvocation
    \/ /\ prev # NoPrev
       /\ \E name \in SessionReaders, k \in {TildePath, AltPath} :
             CommandLoad(name, ReaderOpts(k))
    \/ CommandResolve
    \/ \E ok \in BOOLEAN : CommandNetwork(ok)
    \/ /\ prev # NoPrev
       /\ \E o \in SessionScanOptions : ScanStart(o)
    \/ ScanStep
    \/ ScanDone

SpecSession == InitSession /\ [][NextSession]_vars

----------------------------------------------------------------------------
(* Properties of the resolver, checked under SpecResolve *)

BothResolved == acctA # NoAccount /\ acctB # NoAccount

IndexOrZero(w) == IF Has(w, "index") THEN w.index ELSE 0

AlgoOrEd25519(w) == IF Has(w, "algo") THEN w.algo ELSE "ed25519"

\* the two records have identical derivation parameters: the same private
\* key, or no private key and the same seed, index (absent = 0) and algo
\* (absent = ed25519)
SameDerivation(a, b) ==
    \/ /\ Has(a, "privateKeySecp256k1") /\ Has(b, "privateKeySecp256k1")
       /\ a.privateKeySecp256k1 = b.privateKeySecp256k1
    \/ /\ ~Has(a, "privateKeySecp256k1") /\ ~Has(b, "privateKeySecp256k1")
       /\ a.seed = b.seed
       /\ IndexOrZero(a) = IndexOrZero(b)
       /\ AlgoOrEd25519(a) = AlgoOrEd25519(b)

\* C1: two wallet records with identical derivation parameters (an absent
\* index counting as 0, an absent algo as ed25519, or the same private key)
\* resolve to the identical account, and so does one record resolved twice.
C1_Determinism ==
    (BothResolved /\ SameDerivation(recA, recB)) => acctA = acctB

\* C1 witness: two different records, one leaving index and algo out, the
\* other spelling the defaults, resolved to one seed-derived account
C1_Witness ==
    /\ BothResolved
    /\ recA # recB
    /\ SameDerivation(recA, recB)
    /\ ~Has(recA, "index") /\ ~Has(recA, "algo")
    /\ Has(recB, "index") /\ Has(recB, "algo")
    /\ acctA.kind = "seed"
    /\ acctA = acctB

\* C2: a record holding both a private key and a seed resolves to the account
\* of the private key alone, and a record with the same private key but
\* another seed, index or algo resolves to the same account.
C2_KeyPrecedence ==
    (acctA # NoAccount /\ Has(recA, "privateKeySecp256k1") /\ Has(recA, "seed"))
    => /\ acctA = fromECDSASECP256K1PrivateKey(recA.privateKeySecp256k1)
       /\ (/\ acctB # NoAccount
           /\ Has(recB, "privateKeySecp256k1") /\ Has(recB, "seed")
           /\ recB.privateKeySecp256k1 = recA.privateKeySecp256k1)
          => acctB = acctA

\* C2 witness: same private key, different seed, index and algo, one account
C2_Witness ==
    /\ BothResolved
    /\ Has(recA, "privateKeySecp256k1") /\ Has(recA, "seed")
    /\ Has(recB, "privateKeySecp256k1") /\ Has(recB, "seed")
    /\ recA.privateKeySecp256k1 = recB.privateKeySecp256k1
    /\ recA.seed # recB.seed
    /\ IndexOrZero(recA) # IndexOrZero(recB)
    /\ AlgoOrEd25519(recA) # AlgoOrEd25519(recB)
    /\ acctA.kind = "priv"
    /\ acctA = acctB

\* C14 (as stated): resolving a record that holds a private key and an
\* algorithm other than secp256k1 fails.
C14_PrivNeedsSecp256k1 ==
    (acctA # NoAccount /\ Has(recA, "privateKeySecp256k1")
        /\ Has(recA, "algo") /\ recA.algo # "secp256k1")
    => acctA.kind = "error"

\* C14 (amended): resolving a record that holds a private key returns the
\* secp256k1 account of that key whatever the record's algorithm is, absent
\* or not secp256k1 included; it fails only when the key is rejected.
C14_PrivAnyAlgorithm ==
    (acctA # NoAccount /\ TruthyStr(recA, "privateKeySecp256k1"))
    => /\ acctA = fromECDSASECP256K1PrivateKey(recA.privateKeySecp256k1)
       /\ acctA.algo = "ECDSA_SECP256K1"

\* a record with a private key and algo ed25519 was resolved to an account
C14_Witness ==
    /\ acctA # NoAccount
    /\ Has(recA, "privateKeySecp256k1")
    /\ Has(recA, "algo") /\ recA.algo = "ed25519"
    /\ acctA.kind = "priv"

----------------------------------------------------------------------------
(* Properties of the auto-detect search, checked under SpecSearch *)

\* the command ran the search to its end
SearchEnded ==
    /\ opts.autoDetect
    /\ Len(opts.mnemonic) = 24
    /\ pc \notin {"idle", "probing"}

\* the balance query of probe i succeeded
Succeeded(i) == net[i].kind = "ok"

\* the summed balance of probe i, zero when its query failed
TotalOf(i) == IF Succeeded(i) THEN totalBalanceOf(net[i].balances) ELSE 0

\* probe i is the match of the search
Winner(i) == foundWallet = testWallet(opts.mnemonic, i)

Probes == 1..NumPairs

\* C3: among the probed pairs with the same greatest positive total the match
\* is the one probed first (ed25519, secp256k1, secp256r1 outside, index 0..5
\* inside); at no point of the search has a later pair with an equal total
\* replaced an earlier one.
C3_TieBreak ==
    opts.autoDetect =>
        \A i \in 1..Len(probed), j \in 1..Len(probed) :
            (Winner(j) /\ Succeeded(i) /\ TotalOf(i) = TotalOf(j)) => j <= i

\* C3 witness: the search ended with a match and a later pair has the same
\* positive total as the match
C3_Witness ==
    /\ SearchEnded
    /\ \E i \in Probes, j \in Probes :
          /\ Winner(j) /\ j < i /\ j > 1
          /\ Succeeded(i) /\ TotalOf(i) = TotalOf(j) /\ TotalOf(j) > 0

\* C4: when the search returns a match, the total of the match is the
\* reported maximum and no pair whose query succeeded has a greater total.
C4_Maximality ==
    (SearchEnded /\ foundWallet # Null) =>
        \A j \in Probes :
            Winner(j) =>
                /\ maxBalance = TotalOf(j)
                /\ \A i \in Probes : Succeeded(i) => TotalOf(i) <= TotalOf(j)

\* C4 witness: the match was probed between pairs of a smaller positive total
C4_Witness ==
    /\ SearchEnded
    /\ \E i \in Probes, j \in Probes, k \in Probes :
          /\ i < j /\ j < k /\ Winner(j)
          /\ 0 < TotalOf(i) /\ TotalOf(i) < TotalOf(j)
          /\ 0 < TotalOf(k) /\ TotalOf(k) < TotalOf(j)

\* the query or the derivation of probe i failed
Failed(i) == net[i].kind \in {"query_error", "derive_error"}

\* C5: a probe that fails is logged as an error and is never the match; the
\* search goes on: all 18 pairs are probed in order whatever fails, and when
\* some pair has a positive total a match is returned, the only such pair
\* being that match.
C5_Resilience ==
    /\ \A i \in 1..Len(probed) :
          /\ Failed(i) <=> probed[i].status \in {"error", "network error"}
          /\ Failed(i) => ~Winner(i)
    /\ SearchEnded =>
          /\ Len(probed) = NumPairs
          /\ \A i \in Probes :
                probed[i].algo = PairAlgo(i) /\ probed[i].index = PairIndex(i)
          /\ (\E i \in Probes : TotalOf(i) > 0) => foundWallet # Null
          /\ \A i \in Probes :
                (TotalOf(i) > 0 /\ \A j \in Probes \ {i} : TotalOf(j) = 0)
                => Winner(i)

\* C5 witness: every probe failed except a later one, which is the match
C5_Witness ==
    /\ SearchEnded
    /\ \E j \in Probes :
          /\ j > 2 /\ Winner(j)
          /\ \A i \in Probes \ {j} : Failed(i)
          /\ \E i \in Probes : probed[i].status = "network error"

\* C6: the search returns a match exactly when some probed pair has a
\* strictly positive total, and the match has a positive total; pairs with no
\* tokens, a zero total or an error give NotFound.
C6_NeverZero ==
    SearchEnded =>
        /\ (foundWallet # Null) <=> (\E i \in Probes : TotalOf(i) > 0)
        /\ foundWallet # Null =>
              /\ maxBalance > 0
              /\ \A j \in Probes : Winner(j) => TotalOf(j) > 0

\* C6 witness: pairs hold tokens but every total is zero, and nothing is found
C6_Witness ==
    /\ SearchEnded
    /\ foundWallet = Null
    /\ \E i \in Probes : Succeeded(i) /\ balanceCountOf(net[i].balances) > 0
    /\ \E i \in Probes : probed[i].status = "found"
    /\ pc = "done"

\* C7: while the search runs the keystore is not touched, and when it ends
\* without a match the command exits with code 1, saveWallet was not called
\* and every file is as it was when the command started.
C7_NotFoundNoSave ==
    /\ pc = "probing" => fs = fs0
    /\ (SearchEnded /\ foundWallet = Null) =>
          /\ pc = "done"
          /\ exitCode = 1
          /\ fs = fs0
          /\ acct = NoAccount

\* C7 witness: nothing found, the command is over and the keystore still
\* holds the record it held before
C7_Witness ==
    /\ SearchEnded
    /\ foundWallet = Null
    /\ pc = "done" /\ exitCode = 1
    /\ getKeyfile(opts) = TildePath
    /\ fs[TildePath] = File(TRUE, JSONstringify(OldWallet))

----------------------------------------------------------------------------
(* Properties of the keystore, checked under SpecStore *)

\* the path saveWallet writes
SavedPath == saveTarget(getKeyfile(opts))

\* the second process loaded the path that saveWallet writes
LoadedSavedPath == rd.pc = "done" /\ saveTarget(rd.file) = SavedPath

\* the records whose text the keystore can hold in full
KnownWallets == StoredWallets \cup {OldWallet}

\* their texts
KnownTexts == {JSONstringify(w) : w \in KnownWallets}

\* C8: a loadWallet of the path that starts after saveWallet(R, P) returned
\* gives a record equal to R field for field: the same fields are present and
\* they hold the same values.
C8_RoundTrip ==
    (LoadedSavedPath /\ rd.began \in {"saved", "done"}) =>
        /\ rd.result = wallet
        /\ DOMAIN rd.result = DOMAIN wallet

\* C8 witness: a record without index and algo was saved over another record
\* and loaded back
C8_Witness ==
    /\ LoadedSavedPath
    /\ rd.began \in {"saved", "done"}
    /\ fs0[SavedPath] = File(TRUE, JSONstringify(OldWallet))
    /\ ~Has(wallet, "index") /\ ~Has(wallet, "algo") /\ ~Has(wallet, "seed")
    /\ rd.result = wallet

\* C9: loadWallet returns null when existsSync found no file; when the text
\* it read is the full text of a record it returns that record; for any other
\* text (empty, cut short) it fails with a parse error and returns no record.
C9_LoadOutcome ==
    rd.pc = "done" =>
        /\ ~rd.existed => rd.result = Null
        /\ rd.existed =>
              IF rd.text \in KnownTexts
              THEN rd.text = JSONstringify(rd.result) /\ rd.result \in KnownWallets
              ELSE rd.result = ParseError

\* C9 witness: the file held the beginning of a record and the load failed
C9_Witness ==
    /\ rd.pc = "done"
    /\ rd.existed
    /\ Len(rd.text) >= 2
    /\ \E w \in KnownWallets :
          /\ Len(rd.text) < Len(JSONstringify(w))
          /\ rd.text = SubSeq(JSONstringify(w), 1, Len(rd.text))
    /\ rd.result = ParseError

\* C10 (as claimed): a loadWallet of the path running while saveWallet(R, P)
\* replaces a record R0 returns R0 or R, never anything else.
C10_AtomicReplace ==
    (LoadedSavedPath /\ fs0[SavedPath] = File(TRUE, JSONstringify(OldWallet)))
    => rd.result \in {OldWallet, wallet}

----------------------------------------------------------------------------
(* Properties of wallet:new and wallet:import, checked under SpecImport *)

NewOrImport == cmd \in {"wallet:new", "wallet:import"}

\* the record the keystore holds once the command has written it
WrittenRecord == JSONparse(fs[saveTarget(getKeyfile(opts))].content)

\* C11: whenever wallet:new or wallet:import ends in an error, the files hold
\* what they held when the command started.
C11_NoPartialState ==
    (NewOrImport /\ pc = "done" /\ exitCode = 1) => fs = fs0

\* C12: every record wallet:new or wallet:import has written has an index that
\* is absent or a non-negative integer and an algorithm that is absent or one
\* of the three names.
C12_WrittenFieldsValid ==
    (NewOrImport /\ pc = "saved") =>
        /\ Has(WrittenRecord, "index") => WrittenRecord.index \in Nat
        /\ Has(WrittenRecord, "algo") => WrittenRecord.algo \in AlgoNames

\* C13: every record wallet:new or wallet:import (of either command line) has
\* written contains exactly one of seed and privateKeySecp256k1.
C13_ExactlyOneSecret ==
    pc = "saved" =>
        (Has(WrittenRecord, "seed") # Has(WrittenRecord, "privateKeySecp256k1"))

\* the command was given --seed, --priv and --mnemonic together and has written
C13_Witness ==
    /\ pc = "saved"
    /\ cmd = "wallet:import"
    /\ opts.seed # "" /\ opts.priv # "" /\ opts.mnemonic # <<>>
    /\ Has(WrittenRecord, "seed")

----------------------------------------------------------------------------
(* Properties of wallet:scan-balances, checked under SpecScan *)

ScanCmd == cmd = "wallet:scan-balances"

\* the command found a seed: --mnemonic of 24 words, or a seed record in the
\* keystore it reads
SeedAvailable == scanSeed(opts, fs0).error = ""

\* the texts that are decimal integers
Numerals == {"0", "1", "2", "3", "-1"}

\* --start and --end are integers with 0 <= start <= end
RangeGiven ==
    /\ opts.start \in Numerals /\ opts.end \in Numerals
    /\ 0 <= parseInt(opts.start) /\ parseInt(opts.start) <= parseInt(opts.end)

\* the algorithms the caller asked for, in the caller's order
Requested == requestedAlgos(opts, scanSeed(opts, fs0).defaultAlgo)

Offending == {i \in 1..Len(Requested) : Requested[i] \notin AlgoNames}

\* C15: a scan with start > end, a negative start or a bound that is not a
\* number issues no network query and ends with code 1, on a range error when
\* it had found its seed.
C15_RangeRejected ==
    (ScanCmd /\ ~RangeGiven) =>
        /\ queries = <<>>
        /\ pc = "done" =>
              /\ exitCode = 1
              /\ SeedAvailable => scan.error.kind = "range"

\* C16: a scan with a requested algorithm outside the closed set issues no
\* network query and ends with code 1; when seed and range were accepted the
\* error names the first offending value, whatever precedes it in the list.
C16_InvalidAlgoRejected ==
    (ScanCmd /\ Offending # {}) =>
        /\ queries = <<>>
        /\ pc = "done" =>
              /\ exitCode = 1
              /\ (SeedAvailable /\ RangeGiven) =>
                    /\ scan.error.kind = "algo"
                    /\ \E i \in Offending :
                          /\ scan.error.value = Requested[i]
                          /\ \A j \in Offending : i <= j

\* the list was <<valid, invalid>> and the command reported the second
C16_Witness ==
    /\ ScanCmd /\ pc = "done" /\ exitCode = 1
    /\ Len(Requested) = 2 /\ Requested[1] \in AlgoNames
    /\ scan.error = ScanError("algo", Requested[2])
    /\ queries = <<>>

\* C17: a scan whose list of requested algorithms is empty ends with an error
\* and issues no network query.
C17_EmptyListFails ==
    (ScanCmd /\ pc = "done" /\ Requested = <<>>) =>
        (exitCode = 1 /\ queries = <<>>)

\* the number of indices of the range
RangeSize == parseInt(opts.end) - parseInt(opts.start) + 1

\* the answer of the network for the k-th probe
ProbeAnswer(k) == net[PairOf(probed[k].algo, probed[k].index)]

\* the pairs among the first k probes the scan has to emit
RECURSIVE Emitted(_)
Emitted(k) ==
    IF k = 0 THEN <<>>
    ELSE Emitted(k - 1)
         \o (IF ProbeAnswer(k).kind = "ok"
                /\ (Len(ProbeAnswer(k).balances) > 0 \/ opts.verbose)
             THEN <<[algo |-> probed[k].algo, index |-> probed[k].index]>>
             ELSE <<>>)

\* the pairs of `found`
FoundPairs == [i \in 1..Len(found) |-> [algo |-> found[i].algo, index |-> found[i].index]]

\* C18: the scan probes the algorithms in the caller's order and the indices
\* start..end ascending within each, and `found` holds, in probe order,
\* exactly the probed pairs whose query succeeded and that have a balance or
\* were scanned with --verbose.
C18_ScanOrder ==
    (ScanCmd /\ scan.error = NoError) =>
        /\ \A k \in 1..Len(probed) :
              /\ probed[k].algo = Requested[((k - 1) \div RangeSize) + 1]
              /\ probed[k].index = parseInt(opts.start) + ((k - 1) % RangeSize)
        /\ pc = "done" => Len(probed) = Len(Requested) * RangeSize
        /\ FoundPairs = Emitted(Len(probed))

\* a finished scan of secp256k1 before ed25519 over two indices that emitted
\* some pairs and skipped others
C18_Witness ==
    /\ ScanCmd /\ pc = "done" /\ exitCode = 0
    /\ Requested = <<"secp256k1", "ed25519">>
    /\ RangeSize = 2
    /\ Len(found) >= 2 /\ Len(found) < Len(probed)
    /\ found[1].algo = "secp256k1" /\ found[Len(found)].algo = "ed25519"

\* C19: in both searches a probe that failed is logged as an error and is not
\* a result, a pair queried with success and without balances is not logged
\* as an error, and the search goes through all its pairs.
C19_ErrorsDistinct ==
    /\ (ScanCmd /\ scan.error = NoError) =>
          /\ \A k \in 1..Len(probed) :
                /\ ProbeAnswer(k).kind # "ok" =>
                      /\ probed[k].status = "network error"
                      /\ \A i \in 1..Len(found) :
                            FoundPairs[i] # [algo |-> probed[k].algo,
                                             index |-> probed[k].index]
                /\ (ProbeAnswer(k).kind = "ok" /\ ProbeAnswer(k).balances = <<>>) =>
                      probed[k].status \in {"no balance", "silent"}
          /\ pc = "done" => Len(probed) = Len(Requested) * RangeSize
    /\ cmd = "wallet:import" =>
          /\ \A i \in 1..Len(probed) :
                /\ Failed(i) =>
                      /\ probed[i].status \in {"error", "network error"}
                      /\ ~Winner(i)
                /\ (Succeeded(i) /\ net[i].balances = <<>>) =>
                      probed[i].status = "no balance"
          /\ SearchEnded => Len(probed) = NumPairs

\* a finished scan in which a failed probe was followed by a probe that found
\* no balances
C19_Witness ==
    /\ ScanCmd /\ pc = "done" /\ exitCode = 0
    /\ \E j, k \in 1..Len(probed) :
          /\ j < k
          /\ probed[j].status = "network error"
          /\ probed[k].status = "no balance"

----------------------------------------------------------------------------
(* The frame of the keystore, checked under SpecCommands *)

\* the commands that call saveWallet
Writers == {"wallet:new", "wallet:import"}

\* C20: no step of a command other than wallet:new and wallet:import changes
\* a file, whether the command ends with code 0 or with code 1.
C20_OnlyNewAndImportWrite ==
    [][cmd' \notin Writers => fs' = fs]_vars

\* a token transfer read the keystore, went to the network and ended, and the
\* files are those of its start
C20_Witness ==
    /\ cmd = "send" /\ pc = "done" /\ exitCode = 0
    /\ wallet = OldWallet
    /\ queries # <<>>
    /\ fs = fs0


\* ---------------------------------------------------------------------------
\* C21: in every invocation the keystore file is read at most once and
\* written at most once, and it is written only by wallet:new and
\* wallet:import.
C21_ReadWriteOnce ==
    /\ hist.reads <= 1
    /\ hist.writes <= 1
    /\ hist.writes > 0 => cmd \in Writers


\* ---------------------------------------------------------------------------
\* C22: a validation error is fatal before any network interaction: a
\* mnemonic that is not 24 words long (wallet:import, wallet:test-derivations,
\* wallet:scan-balances), an index out of range or a missing import method
\* ends the command with code 1, no query having been issued and the keystore
\* not having been written.
WrongWordCount ==
    /\ cmd \in {"wallet:import", "wallet:test-derivations", "wallet:scan-balances"}
    /\ opts.mnemonic # <<>>
    /\ Len(opts.mnemonic) # 24

MissingMethod ==
    /\ cmd = "wallet:import"
    /\ opts.seed = "" /\ opts.priv = "" /\ opts.mnemonic = <<>>

\* the index that wallet:import would store, or the bounds of a scan
IndexOutOfRange ==
    \/ /\ cmd = "wallet:import"
       /\ opts.mnemonic # <<>> /\ ~opts.autoDetect
       /\ (opts.index \notin Numerals \/ parseInt(opts.index) < 0)
    \/ ScanCmd /\ ~RangeGiven

C22_ValidationFatal ==
    (WrongWordCount \/ MissingMethod \/ IndexOutOfRange) =>
        /\ queries = <<>>
        /\ fs = fs0
        /\ pc = "done" => exitCode = 1


\* ---------------------------------------------------------------------------
\* C23: a command that needs the local wallet exits with code 1 when no
\* keystore file exists at the selected path, and exits with code 0 only when
\* no fatal error occurred (a missing or malformed keystore, a record that
\* does not resolve, a failed exchange with the network).
NeedsWallet == cmd \in KeystoreReaders /\ hist.reads > 0

FatalError ==
    \/ wallet \in {Null, ParseError}
    \/ accountFromWallet(wallet).kind = "error"
    \/ hist.netFailed

C23_ExitCodes ==
    (NeedsWallet /\ pc = "done") =>
        /\ ~fs0[saveTarget(getKeyfile(opts))].exists => exitCode = 1
        /\ exitCode = 0 => ~FatalError


\* ---------------------------------------------------------------------------
\* C24: a command invoked without --keyfile reads or writes the per-user
\* default <home>/.keeta/wallet.json, the value of defaultKeyfile(); with
\* --keyfile P it reads or writes P.
NoKeyfileFlag == opts.keyfile = optionKeyfile("")

SelectedPath == IF NoKeyfileFlag THEN defaultKeyfile ELSE opts.keyfile

C24_DefaultKeyfile ==
    /\ (NewOrImport /\ pc \in {"write", "saved", "done"}) =>
          \A p \in Paths : fs[p] # fs0[p] => p = SelectedPath
    /\ (NeedsWallet /\ pc = "loaded") => wallet = loadWallet(fs0, SelectedPath)


\* ---------------------------------------------------------------------------
\* C26: private-key import works with --priv alone: wallet:import with
\* --priv <key> and no --algo saves a record holding that secp256k1 private
\* key and reports success.
PrivAlone ==
    /\ cmd = "wallet:import"
    /\ opts.seed = "" /\ opts.mnemonic = <<>>
    /\ strip0x(opts.priv) \in PrivKeys
    /\ opts.algo = optionAlgo("")

C26_PrivAlone ==
    (PrivAlone /\ pc = "done") =>
        /\ exitCode = 0
        /\ fs # fs0
        /\ WrittenRecord # ParseError
        /\ Has(WrittenRecord, "privateKeySecp256k1")
        /\ WrittenRecord.privateKeySecp256k1 = strip0x(opts.priv)


\* ---------------------------------------------------------------------------
\* C27: token:distribute publishes two separate transactions in a fixed
\* order, the supply increase first and the transfer second; the transfer is
\* published only after the supply increase was published, and when the
\* supply increase fails no transfer is published and the command exits
\* with code 1.
SupplyPublished ==
    \E i \in 1..Len(published) : published[i] = "modifyTokenSupply"

C27_DistributeOrder ==
    cmd = "token:distribute" =>
        /\ published \in {<<>>, <<"modifyTokenSupply">>,
                          <<"modifyTokenSupply", "send">>}
        /\ (hist.netFailed /\ ~SupplyPublished) =>
              /\ pc = "done" /\ exitCode = 1
              /\ published = <<>>
        /\ (pc = "done" /\ exitCode = 0) =>
              published = <<"modifyTokenSupply", "send">>

C27_Witness ==
    /\ cmd = "token:distribute" /\ pc = "done" /\ exitCode = 0
    /\ published = <<"modifyTokenSupply", "send">>


\* ---------------------------------------------------------------------------
\* C28: auto-detect probes are issued one at a time in a fixed order, ed25519
\* indices 0..5, then secp256k1 0..5, then secp256r1 0..5; each pair is
\* probed at most once, a query belongs to the probe in progress, and the
\* search finishes after at most 18 probes for every pattern of successes
\* and errors.
ExpectedPair(i) ==
    [algo  |-> IF i <= 6 THEN "ed25519"
               ELSE IF i <= 12 THEN "secp256k1" ELSE "secp256r1",
     index |-> (i - 1) % 6]

PairNumber(q) == CHOOSE i \in 1..18 : ExpectedPair(i) = q

AutoDetect == cmd = "wallet:import" /\ opts.autoDetect

C28_ProbeOrder ==
    AutoDetect =>
        /\ Len(probed) <= 18
        /\ \A i \in 1..Len(probed) :
              [algo |-> probed[i].algo, index |-> probed[i].index] = ExpectedPair(i)
        /\ Len(queries) <= Len(probed)
        /\ \A k \in 1..Len(queries) :
              /\ \E i \in 1..18 : ExpectedPair(i) = queries[k]
              /\ PairNumber(queries[k]) <= Len(probed)
              /\ k > 1 => PairNumber(queries[k - 1]) < PairNumber(queries[k])
        /\ pc \in {"save", "write", "saved", "done"} =>
              (Len(opts.mnemonic) = 24 => Len(probed) = 18)

C28_Witness ==
    /\ AutoDetect /\ pc = "done"
    /\ Len(probed) = 18
    /\ \E i \in 1..18, j \in 1..18 :
          /\ i < j
          /\ probed[i].status = "network error"
          /\ probed[j].status = "found"
    /\ Len(queries) > 1


\* ---------------------------------------------------------------------------
\* C30: on a successful auto-detect the record that wallet:import writes is
\* exactly the seed of the mnemonic with the algorithm and index of the
\* winning pair, the write happens only after all probes have completed, and
\* the total reported for the selection is the winning pair's summed balance.
\* The winning pair is the first pair with the greatest positive total.
IsBest(j) ==
    /\ TotalOf(j) > 0
    /\ \A i \in 1..18 : TotalOf(i) <= TotalOf(j)
    /\ \A i \in 1..(j - 1) : TotalOf(i) < TotalOf(j)

C30_SavedIsWinner ==
    AutoDetect =>
        /\ fs # fs0 => Len(probed) = 18
        /\ pc \in {"saved", "done"} /\ fs # fs0 =>
              \E j \in 1..18 :
                  /\ IsBest(j)
                  /\ WrittenRecord =
                        [seed  |-> seedFromPassphrase(opts.mnemonic),
                         algo  |-> ExpectedPair(j).algo,
                         index |-> ExpectedPair(j).index]
                  /\ maxBalance = TotalOf(j)
        /\ (pc = "done" /\ exitCode = 0) => fs # fs0

C30_Witness ==
    /\ AutoDetect /\ pc = "done" /\ exitCode = 0
    /\ \E i \in 1..18, j \in 1..18 :
          /\ i < j /\ IsBest(j)
          /\ 0 < TotalOf(i)
          /\ WrittenRecord.index = ExpectedPair(j).index
          /\ WrittenRecord.algo = ExpectedPair(j).algo


\* ---------------------------------------------------------------------------
(* Properties of two invocations in a row, checked under SpecSession *)

\* the first command was a successful wallet:new or wallet:import
SavedBefore == prev # NoPrev /\ prev.cmd \in Writers /\ prev.exitCode = 0

\* C29: after a successful wallet:new or wallet:import that saved to keyfile
\* P, a following wallet-consuming command with the same keyfile P resolves
\* the account whose address the import printed, whatever the import method.
C29_Readback ==
    (/\ SavedBefore
     /\ NeedsWallet /\ cmd # "wallet:export"
     /\ opts.keyfile = prev.opts.keyfile
     /\ pc \in {"network", "done"}) =>
        /\ wallet \notin {Null, ParseError}
        /\ acct = prev.acct
        /\ acct.kind # "error"

C29_Witness ==
    /\ SavedBefore
    /\ prev.cmd = "wallet:import" /\ prev.opts.autoDetect
    /\ cmd = "wallet:address" /\ pc = "done" /\ exitCode = 0
    /\ opts.keyfile = prev.opts.keyfile
    /\ acct = prev.acct
    /\ acct.index = 1 /\ acct.algo = algoConst("secp256k1")


\* the record stored at the keyfile both commands named
StoredAtKeyfile == JSONparse(fs[opts.keyfile].content)

\* C25: wallet:scan-balances without --mnemonic takes its seed from the
\* keystore that --keyfile selects: after wallet:import --seed S --keyfile P
\* or wallet:new --keyfile P, wallet:scan-balances --keyfile P scans the
\* accounts of the seed stored at P; with no --keyfile on either command the
\* scan reads the file that wallet:new wrote.
C25_ScanReadsKeyfile ==
    (/\ SavedBefore
     /\ ScanCmd /\ opts.mnemonic = <<>>
     /\ opts.keyfile = prev.opts.keyfile
     /\ Has(StoredAtKeyfile, "seed")) =>
        /\ scan.error.kind \notin {"parse", "no seed", "private key"}
        /\ pc = "scanning" => scan.seedHex = StoredAtKeyfile.seed

============================================================================
